---- MODULE Spec2Model ----
(***************************************************************************)
(* CatboostPredictionModel (freqtrade/freqai/prediction_models).           *)
(*                                                                         *)
(* The adapter derives labels from a close-price column (make_labels),     *)
(* trains a CatBoostRegressor through the data kitchen (train, fit) and    *)
(* denormalizes the regressor's output (predict).                          *)
(*                                                                         *)
(* Numbers are exact rationals <<n, d>> in lowest terms with d > 0; the    *)
(* pair <<0, 0>> is pandas' missing value (NaN).                           *)
(***************************************************************************)
EXTENDS Integers, Sequences, FiniteSets, TLC

\* ------------------------------------------------------------------ bounds
MaxLen == 6
MaxPrice == 2
MaxPeriod == 3
MaxBound == 2
MaxRows == 1
MaxCalls == 3
MaxLabelBound == 1

\* ------------------------------------------------------------- arithmetic
Abs(x) == IF x < 0 THEN -x ELSE x

RECURSIVE GCD(_, _)
GCD(a, b) == IF b = 0 THEN a ELSE GCD(b, a % b)

NaN == <<0, 0>>

IsNaN(a) == a[2] = 0

\* the rational n/d in lowest terms; a zero divisor gives the missing value
Rat(n, d) ==
    IF d = 0 THEN NaN
    ELSE LET g == GCD(Abs(n), Abs(d))
             sg == IF d < 0 THEN -1 ELSE 1
         IN <<(sg * n) \div g, (sg * d) \div g>>

Num(k) == <<k, 1>>

RAdd(a, b) == IF IsNaN(a) \/ IsNaN(b) THEN NaN
              ELSE Rat(a[1] * b[2] + b[1] * a[2], a[2] * b[2])

RSub(a, b) == IF IsNaN(a) \/ IsNaN(b) THEN NaN
              ELSE Rat(a[1] * b[2] - b[1] * a[2], a[2] * b[2])

RMul(a, b) == IF IsNaN(a) \/ IsNaN(b) THEN NaN
              ELSE Rat(a[1] * b[1], a[2] * b[2])

RDiv(a, b) == IF IsNaN(a) \/ IsNaN(b) THEN NaN
              ELSE Rat(a[1] * b[2], a[2] * b[1])

RLe(a, b) == a[1] * b[2] <= b[1] * a[2]

RLt(a, b) == a[1] * b[2] < b[1] * a[2]

\* ------------------------------------------------------------ make_labels
\* a shift one row short
ShiftOneShort(series, k) ==
    [i \in 1..Len(series) |->
        IF i - k - 1 <= Len(series) THEN series[i - k - 1] ELSE NaN]

\* Series.shift(k) for k <= 0: row i takes the value of row i - k, rows
\* whose source lies past the end are missing
Shift(series, k) ==
    [i \in 1..Len(series) |->
        IF i - k <= Len(series) THEN series[i - k] ELSE NaN]

RECURSIVE SumRange(_, _, _)
SumRange(series, lo, hi) ==
    IF lo > hi THEN Num(0)
    ELSE RAdd(series[lo], SumRange(series, lo + 1, hi))

\* Series.rolling(w).mean(): trailing window of w rows ending at row i,
\* min_periods defaults to w, so a short window or a missing value in the
\* window gives a missing value
RollingMean(series, w) ==
    [i \in 1..Len(series) |->
        IF i - w + 1 >= 1 /\ \A j \in (i - w + 1)..i : ~IsNaN(series[j])
        THEN RDiv(SumRange(series, i - w + 1, i), Num(w))
        ELSE NaN]

SeriesDiv(a, b) == [i \in 1..Len(a) |-> RDiv(a[i], b[i])]

SeriesSub(a, c) == [i \in 1..Len(a) |-> RSub(a[i], c)]

\* the rolling mean taken before the shift
make_labels_rolled_first(close, p) ==
    SeriesSub(SeriesDiv(Shift(RollingMean(close, p), -p), close), Num(1))

\* dataframe["close"].shift(-period).rolling(period).mean()
\*     / dataframe["close"] - 1
make_labels(close, p) ==
    SeriesSub(SeriesDiv(RollingMean(Shift(close, -p), p), close), Num(1))

\* ------------------------------------------------------------------ state
VARIABLES
    \* make_labels: the dataframe's columns and the configured period
    close, period, s, labels_pc,
    \* one value through normalization and back
    x, x_min, x_max, raw, denormed, denorm_pc,
    \* the adapter, its data kitchen and the call in progress
    pc, op, outcome, calls,
    unfiltered_dataframe, label_list, labels_min, labels_max, do_predict,
    dk_data_dictionary, features_filtered, labels_filtered, data_dictionary,
    filtered_dataframe, self_model, model, ncalls, nfits, fitted, inference,
    predictions, pred_df, ret, model_training_parameters

labelVars == <<close, period, s, labels_pc>>

denormVars == <<x, x_min, x_max, raw, denormed, denorm_pc>>

kitchenVars == <<label_list, labels_min, labels_max, do_predict,
                 dk_data_dictionary>>

localVars == <<features_filtered, labels_filtered, data_dictionary,
               filtered_dataframe, model, predictions, pred_df>>

lifeVars == <<pc, op, outcome, calls, unfiltered_dataframe, kitchenVars,
              localVars, self_model, ncalls, nfits, fitted, inference, ret,
              model_training_parameters>>

vars == <<labelVars, denormVars, lifeVars>>

\* ------------------------------------------------------- make_labels spec
Prices == {Num(k) : k \in 1..MaxPrice}

CloseSeries == UNION {[1..n -> Prices] : n \in 0..MaxLen}

LabelsOff ==
    /\ close = <<>>
    /\ period = 1
    /\ s = <<>>
    /\ labels_pc = "off"

\* self.make_labels(dataframe, dk): adds column "s" and returns it
MakeLabels ==
    /\ labels_pc = "call"
    /\ s' = make_labels(close, period)
    /\ labels_pc' = "done"
    /\ UNCHANGED <<close, period, denormVars, lifeVars>>

\* ------------------------------------------------ denormalization spec
\* data kitchen normalize_data: 2 * (x - min) / (max - min) - 1
normalize(v, mn, mx) ==
    RSub(RDiv(RMul(Num(2), RSub(v, mn)), RSub(mx, mn)), Num(1))

\* the division by 2 left out
denorm_not_halved(r, mn, mx) ==
    RAdd(RMul(RAdd(r, Num(1)), RSub(mx, mn)), mn)

\* the shift of the raw value by 1 left out
denorm_not_shifted(r, mn, mx) ==
    RAdd(RDiv(RMul(r, RSub(mx, mn)), Num(2)), mn)

\* ((pred_df[label] + 1) * (labels_max[label] - labels_min[label]) / 2)
\*     + labels_min[label]
denorm(r, mn, mx) ==
    RAdd(RDiv(RMul(RAdd(r, Num(1)), RSub(mx, mn)), Num(2)), mn)

Bounds == {Num(k) : k \in (0 - MaxBound)..MaxBound}

Values == {Rat(k, d) : k \in (0 - 2 * MaxBound)..(2 * MaxBound), d \in 1..2}

DenormOff ==
    /\ x = NaN
    /\ x_min = NaN
    /\ x_max = NaN
    /\ raw = NaN
    /\ denormed = NaN
    /\ denorm_pc = "off"

NormalizeValue ==
    /\ denorm_pc = "normalize"
    /\ raw' = normalize(x, x_min, x_max)
    /\ denorm_pc' = "denorm"
    /\ UNCHANGED <<x, x_min, x_max, denormed, labelVars, lifeVars>>

DenormValue ==
    /\ denorm_pc = "denorm"
    /\ denormed' = denorm(raw, x_min, x_max)
    /\ denorm_pc' = "done"
    /\ UNCHANGED <<x, x_min, x_max, raw, labelVars, lifeVars>>

\* ------------------------------------------------- tables and dictionaries
\* a table (dataframe) is known by the window it was cut from, its row
\* count, what it holds and the processing applied to it so far
NoTable == [win |-> "none", rows |-> 0, kind |-> "none", proc |-> <<>>]

\* the inference windows predict can be given
Frames ==
    {[win |-> "inference", rows |-> n, kind |-> "unfiltered",
      proc |-> <<>>] : n \in 0..MaxRows}

\* the training windows train can be given
TrainFrames ==
    {[win |-> "training", rows |-> n, kind |-> "unfiltered",
      proc |-> <<>>] : n \in {MaxRows}}

EmptyDict == [k \in {} |-> NoTable]

TrainKeys == {"train_features", "train_labels", "train_weights",
              "test_features", "test_labels", "test_weights"}

Processed(table, step) == [table EXCEPT !.proc = Append(@, step)]

NoModel == 0

NoInference == [handle |-> NoModel, input |-> NoTable]

NoDf == [columns |-> <<>>, data |-> <<>>]

NoRet == [model |-> NoModel, pred_df |-> NoDf, do_predict |-> <<>>]

LabelLists == {<<"s">>, <<"s", "t">>}

LabelsOf(list) == {list[i] : i \in 1..Len(list)}

\* ------------------------------------------------------------ fit kwargs
AllowWritingFiles == 0

Verbose == 100

EarlyStoppingRounds == 400

FixedKwargs ==
    [k \in {"allow_writing_files", "verbose", "early_stopping_rounds"} |->
        CASE k = "allow_writing_files" -> AllowWritingFiles
          [] k = "verbose" -> Verbose
          [] k = "early_stopping_rounds" -> EarlyStoppingRounds]

ParamNames == {"allow_writing_files", "verbose", "early_stopping_rounds",
               "iterations", "depth"}

ParamValues == {1, 2}

AllParams == UNION {[names -> ParamValues] : names \in SUBSET ParamNames}

LifeParams == {[k \in {"iterations"} |-> 1], [k \in {"verbose"} |-> 1]}

\* the user mapping merged as a dictionary: no keyword is given twice
KwargsNeverCollide(params) == FALSE

\* f(allow_writing_files=False, verbose=100, early_stopping_rounds=400,
\*   **params): a keyword given twice is a TypeError
KwargsCollide(params) == DOMAIN FixedKwargs \cap DOMAIN params # {}

MergedKwargs(params) ==
    [k \in DOMAIN FixedKwargs \cup DOMAIN params |->
        IF k \in DOMAIN FixedKwargs THEN FixedKwargs[k] ELSE params[k]]

\* what the regressor was constructed with and fitted on
FittedModel(dd, params, width) ==
    [X |-> <<dd["train_features"], dd["train_labels"], dd["train_weights"]>>,
     eval_set |-> <<dd["test_features"], dd["test_labels"],
                    dd["test_weights"]>>,
     kwargs |-> MergedKwargs(params),
     width |-> width]

\* -------------------------------------------------------------- lifecycle
LocalsClear ==
    /\ features_filtered' = NoTable
    /\ labels_filtered' = NoTable
    /\ data_dictionary' = EmptyDict
    /\ filtered_dataframe' = NoTable
    /\ model' = NoModel
    /\ predictions' = <<>>
    /\ pred_df' = NoDf
    /\ inference' = NoInference

LifeStart(mode, paramSet, dict) ==
    /\ pc = mode
    /\ op = "none"
    /\ outcome = "none"
    /\ calls = <<>>
    /\ unfiltered_dataframe = NoTable
    /\ label_list \in LabelLists
    /\ labels_min = [l \in {} |-> NaN]
    /\ labels_max = [l \in {} |-> NaN]
    /\ do_predict = <<>>
    /\ dk_data_dictionary = dict
    /\ features_filtered = NoTable
    /\ labels_filtered = NoTable
    /\ data_dictionary = EmptyDict
    /\ filtered_dataframe = NoTable
    /\ self_model = NoModel
    /\ model = NoModel
    /\ ncalls = 0
    /\ nfits = 0
    /\ fitted = <<>>
    /\ inference = NoInference
    /\ predictions = <<>>
    /\ pred_df = NoDf
    /\ ret = NoRet
    /\ model_training_parameters \in paramSet

Init ==
    /\ LabelsOff
    /\ DenormOff
    /\ LifeStart("idle", LifeParams, EmptyDict)

\* ------------------------------------------------------------------ train
\* train(unfiltered_dataframe, pair, dk): the data kitchen handed in holds
\* the label columns of this training
TrainStart ==
    /\ pc = "idle"
    /\ ncalls < MaxCalls
    /\ ncalls' = ncalls + 1
    /\ \E df \in TrainFrames : unfiltered_dataframe' = df
    /\ \E list \in LabelLists : label_list' = list
    /\ pc' = "t_filter"
    /\ op' = "train"
    /\ outcome' = "running"
    /\ calls' = <<>>
    /\ ret' = NoRet
    /\ UNCHANGED <<labels_min, labels_max, do_predict, dk_data_dictionary,
                   localVars, self_model, nfits, fitted, inference,
                   model_training_parameters, labelVars, denormVars>>

\* dk.filter_features(unfiltered_dataframe, dk.training_features_list,
\*                    dk.label_list, training_filter=True)
TrainFilter ==
    /\ pc = "t_filter"
    /\ features_filtered' =
           [unfiltered_dataframe EXCEPT !.kind = "features",
                                        !.proc = <<"filter">>]
    /\ labels_filtered' =
           [unfiltered_dataframe EXCEPT !.kind = "labels",
                                        !.proc = <<"filter">>]
    /\ calls' = Append(calls, "filter_features(training_filter=True)")
    /\ pc' = "t_split"
    /\ UNCHANGED <<ncalls, op, outcome, unfiltered_dataframe, kitchenVars,
                   data_dictionary, filtered_dataframe, model, predictions,
                   pred_df, self_model, nfits, fitted, inference, ret,
                   model_training_parameters, labelVars, denormVars>>

\* dk.make_train_test_datasets(features_filtered, labels_filtered)
make_train_test_datasets(features, labels) ==
    [k \in TrainKeys |->
        IF k \in {"train_labels", "test_labels"}
        THEN [Processed(labels, "split") EXCEPT !.kind = k]
        ELSE [Processed(features, "split") EXCEPT !.kind = k]]

TrainSplit ==
    /\ pc = "t_split"
    /\ data_dictionary' =
           make_train_test_datasets(features_filtered, labels_filtered)
    /\ dk_data_dictionary' = data_dictionary'
    /\ calls' = Append(calls, "make_train_test_datasets")
    /\ pc' = "t_fit_labels"
    /\ UNCHANGED <<ncalls, op, outcome, unfiltered_dataframe, label_list,
                   labels_min, labels_max, do_predict, features_filtered,
                   labels_filtered, filtered_dataframe, model, predictions,
                   pred_df, self_model, nfits, fitted, inference, ret,
                   model_training_parameters, labelVars, denormVars>>

\* dk.fit_labels()
TrainFitLabels ==
    /\ pc = "t_fit_labels"
    /\ calls' = Append(calls, "fit_labels")
    /\ pc' = "t_normalize"
    /\ UNCHANGED <<ncalls, op, outcome, unfiltered_dataframe, kitchenVars,
                   localVars, self_model, nfits, fitted, inference, ret,
                   model_training_parameters, labelVars, denormVars>>

\* the minimum and maximum of a label over the train partition
LabelBoundPairs == {<<Num(a), Num(2 * a + 1)>> : a \in 0..MaxLabelBound}

\* dk.normalize_data(data_dictionary): scales every table and records the
\* train labels' minimum and maximum per label
normalize_data(dd) == [k \in DOMAIN dd |-> Processed(dd[k], "normalize")]

\* the normalized dictionary is not kept: dk.normalize_data(data_dictionary)
TrainNormalizeDiscarded ==
    /\ pc = "t_normalize"
    /\ dk_data_dictionary' = normalize_data(data_dictionary)
    /\ \E b \in [LabelsOf(label_list) -> LabelBoundPairs] :
        /\ \A l \in LabelsOf(label_list) : RLe(b[l][1], b[l][2])
        /\ labels_min' = [l \in LabelsOf(label_list) |-> b[l][1]]
        /\ labels_max' = [l \in LabelsOf(label_list) |-> b[l][2]]
    /\ calls' = Append(calls, "normalize_data")
    /\ pc' = "t_clean"
    /\ UNCHANGED <<ncalls, op, outcome, unfiltered_dataframe, label_list,
                   do_predict, features_filtered, labels_filtered,
                   data_dictionary, filtered_dataframe, model, predictions,
                   pred_df, self_model, nfits, fitted, inference, ret,
                   model_training_parameters, labelVars, denormVars>>

TrainNormalize ==
    /\ pc = "t_normalize"
    /\ data_dictionary' = normalize_data(data_dictionary)
    /\ dk_data_dictionary' = data_dictionary'
    /\ \E b \in [LabelsOf(label_list) -> LabelBoundPairs] :
        /\ \A l \in LabelsOf(label_list) : RLe(b[l][1], b[l][2])
        /\ labels_min' = [l \in LabelsOf(label_list) |-> b[l][1]]
        /\ labels_max' = [l \in LabelsOf(label_list) |-> b[l][2]]
    /\ calls' = Append(calls, "normalize_data")
    /\ pc' = "t_clean"
    /\ UNCHANGED <<ncalls, op, outcome, unfiltered_dataframe, label_list,
                   do_predict, features_filtered, labels_filtered,
                   filtered_dataframe, model, predictions, pred_df,
                   self_model, nfits, fitted, inference, ret,
                   model_training_parameters, labelVars, denormVars>>

\* self.data_cleaning_train(dk)
TrainClean ==
    /\ pc = "t_clean"
    /\ calls' = Append(calls, "data_cleaning_train")
    /\ pc' = "t_fit"
    /\ UNCHANGED <<ncalls, op, outcome, unfiltered_dataframe, kitchenVars,
                   localVars, self_model, nfits, fitted, inference, ret,
                   model_training_parameters, labelVars, denormVars>>

\* fit keeps the handle itself: self.model = model
TrainFitStores ==
    /\ pc = "t_fit"
    /\ ~KwargsCollide(model_training_parameters)
    /\ fitted' = Append(fitted, FittedModel(data_dictionary,
                                            model_training_parameters,
                                            Len(label_list)))
    /\ nfits' = nfits + 1
    /\ model' = nfits + 1
    /\ self_model' = nfits + 1
    /\ calls' = Append(calls, "fit")
    /\ pc' = "t_return"
    /\ UNCHANGED <<ncalls, op, outcome, unfiltered_dataframe, kitchenVars,
                   features_filtered, labels_filtered, data_dictionary,
                   filtered_dataframe, predictions, pred_df, inference, ret,
                   model_training_parameters, labelVars, denormVars>>

\* model = self.fit(data_dictionary)
TrainFit ==
    /\ pc = "t_fit"
    /\ ~KwargsCollide(model_training_parameters)
    /\ fitted' = Append(fitted, FittedModel(data_dictionary,
                                            model_training_parameters,
                                            Len(label_list)))
    /\ nfits' = nfits + 1
    /\ model' = nfits + 1
    /\ calls' = Append(calls, "fit")
    /\ pc' = "t_return"
    /\ UNCHANGED <<ncalls, op, outcome, unfiltered_dataframe, kitchenVars,
                   features_filtered, labels_filtered, data_dictionary,
                   filtered_dataframe, predictions, pred_df, self_model,
                   inference, ret, model_training_parameters, labelVars,
                   denormVars>>

\* the call leaves with an exception: its locals are gone
Raised(exception) ==
    /\ pc' = "idle"
    /\ outcome' = exception
    /\ LocalsClear
    /\ UNCHANGED <<ncalls, op, calls, unfiltered_dataframe, kitchenVars,
                   self_model, nfits, fitted, ret, model_training_parameters,
                   labelVars, denormVars>>

TrainFitTypeError ==
    /\ pc = "t_fit"
    /\ KwargsCollide(model_training_parameters)
    /\ Raised("TypeError")

\* return model
TrainReturn ==
    /\ pc = "t_return"
    /\ ret' = [NoRet EXCEPT !.model = model]
    /\ pc' = "idle"
    /\ outcome' = "returned"
    /\ LocalsClear
    /\ UNCHANGED <<ncalls, op, calls, unfiltered_dataframe, kitchenVars,
                   self_model, nfits, fitted, model_training_parameters,
                   labelVars, denormVars>>

\* self.fit(dk.data_dictionary) called on its own
FitCall ==
    /\ pc = "idle"
    /\ ncalls < MaxCalls
    /\ ncalls' = ncalls + 1
    /\ TrainKeys \subseteq DOMAIN dk_data_dictionary
    /\ ~KwargsCollide(model_training_parameters)
    /\ fitted' = Append(fitted, FittedModel(dk_data_dictionary,
                                            model_training_parameters,
                                            Len(label_list)))
    /\ nfits' = nfits + 1
    /\ ret' = [NoRet EXCEPT !.model = nfits + 1]
    /\ op' = "fit"
    /\ outcome' = "returned"
    /\ calls' = <<"fit">>
    /\ UNCHANGED <<pc, unfiltered_dataframe, kitchenVars, localVars,
                   self_model, inference, model_training_parameters,
                   labelVars, denormVars>>

FitCallTypeError ==
    /\ pc = "idle"
    /\ ncalls < MaxCalls
    /\ ncalls' = ncalls + 1
    /\ TrainKeys \subseteq DOMAIN dk_data_dictionary
    /\ KwargsCollide(model_training_parameters)
    /\ op' = "fit"
    /\ outcome' = "TypeError"
    /\ calls' = <<>>
    /\ ret' = NoRet
    /\ UNCHANGED <<pc, unfiltered_dataframe, kitchenVars, localVars,
                   self_model, nfits, fitted, inference,
                   model_training_parameters, labelVars, denormVars>>

\* a delegated call (data kitchen, cleaning hook, regressor) raises and the
\* exception propagates to the caller
RaisingPcs == {"t_filter", "t_split", "t_fit_labels", "t_normalize",
               "t_clean", "t_fit", "p_find", "p_filter", "p_normalize",
               "p_clean", "p_infer"}

Raise ==
    /\ pc \in RaisingPcs
    /\ Raised("raised")

\* the caller keeps the handle train or fit returned: self.model = model
AssignModel ==
    /\ pc = "idle"
    /\ op \in {"train", "fit"}
    /\ outcome = "returned"
    /\ self_model # ret.model
    /\ self_model' = ret.model
    /\ UNCHANGED <<ncalls, pc, op, outcome, calls, unfiltered_dataframe,
                   kitchenVars, localVars, nfits, fitted, inference, ret,
                   model_training_parameters, labelVars, denormVars>>

\* ---------------------------------------------------------------- predict
RawVals == {Rat(-3, 2), Num(0), Num(1), Num(2)}

Flags(n) == [1..n -> {0, 1}]

PredictStart ==
    /\ pc = "idle"
    /\ ncalls < MaxCalls
    /\ ncalls' = ncalls + 1
    /\ \E df \in Frames : unfiltered_dataframe' = df
    /\ pc' = "p_find"
    /\ op' = "predict"
    /\ outcome' = "running"
    /\ calls' = <<>>
    /\ ret' = NoRet
    /\ UNCHANGED <<kitchenVars, localVars, self_model, nfits, fitted,
                   inference, model_training_parameters, labelVars,
                   denormVars>>

\* dk.find_features(unfiltered_dataframe)
PredictFind ==
    /\ pc = "p_find"
    /\ calls' = Append(calls, "find_features")
    /\ pc' = "p_filter"
    /\ UNCHANGED <<ncalls, op, outcome, unfiltered_dataframe, kitchenVars,
                   localVars, self_model, nfits, fitted, inference, ret,
                   model_training_parameters, labelVars, denormVars>>

\* filtered_dataframe, _ = dk.filter_features(unfiltered_dataframe,
\*     dk.training_features_list, training_filter=False)
\* the kitchen keeps every row and flags the rows it had to fill
PredictFilter ==
    /\ pc = "p_filter"
    /\ filtered_dataframe' =
           [unfiltered_dataframe EXCEPT !.kind = "features",
                                        !.proc = <<"filter">>]
    /\ \E flags \in Flags(unfiltered_dataframe.rows) : do_predict' = flags
    /\ calls' = Append(calls, "filter_features(training_filter=False)")
    /\ pc' = "p_normalize"
    /\ UNCHANGED <<ncalls, op, outcome, unfiltered_dataframe, label_list,
                   labels_min, labels_max, dk_data_dictionary,
                   features_filtered, labels_filtered, data_dictionary, model,
                   predictions, pred_df, self_model, nfits, fitted, inference,
                   ret, model_training_parameters, labelVars, denormVars>>

\* filtered_dataframe = dk.normalize_data_from_metadata(filtered_dataframe)
PredictNormalize ==
    /\ pc = "p_normalize"
    /\ filtered_dataframe' =
           Processed(filtered_dataframe, "normalize_from_metadata")
    /\ calls' = Append(calls, "normalize_data_from_metadata")
    /\ pc' = "p_store"
    /\ UNCHANGED <<ncalls, op, outcome, unfiltered_dataframe, kitchenVars,
                   features_filtered, labels_filtered, data_dictionary, model,
                   predictions, pred_df, self_model, nfits, fitted, inference,
                   ret, model_training_parameters, labelVars, denormVars>>

\* dictionary with one entry set, the others kept
DictSet(dd, key, value) ==
    [k \in DOMAIN dd \cup {key} |-> IF k = key THEN value ELSE dd[k]]

\* the dictionary is replaced: dk.data_dictionary = {"prediction_features": ...}
PredictStoreReplaces ==
    /\ pc = "p_store"
    /\ dk_data_dictionary' =
           [k \in {"prediction_features"} |-> filtered_dataframe]
    /\ calls' = Append(calls, "store prediction_features")
    /\ pc' = "p_clean"
    /\ UNCHANGED <<ncalls, op, outcome, unfiltered_dataframe, label_list,
                   labels_min, labels_max, do_predict, localVars, self_model,
                   nfits, fitted, inference, ret, model_training_parameters,
                   labelVars, denormVars>>

\* dk.data_dictionary["prediction_features"] = filtered_dataframe
PredictStore ==
    /\ pc = "p_store"
    /\ dk_data_dictionary' =
           DictSet(dk_data_dictionary, "prediction_features",
                   filtered_dataframe)
    /\ calls' = Append(calls, "store prediction_features")
    /\ pc' = "p_clean"
    /\ UNCHANGED <<ncalls, op, outcome, unfiltered_dataframe, label_list,
                   labels_min, labels_max, do_predict, localVars, self_model,
                   nfits, fitted, inference, ret, model_training_parameters,
                   labelVars, denormVars>>

\* self.data_cleaning_predict(dk, filtered_dataframe): may withdraw rows
\* from do_predict and may replace the stored prediction features by a
\* transformed table
PredictClean ==
    /\ pc = "p_clean"
    /\ \E flags \in Flags(Len(do_predict)) :
        /\ \A i \in 1..Len(do_predict) : flags[i] <= do_predict[i]
        /\ do_predict' = flags
    /\ \E transformed \in BOOLEAN :
        dk_data_dictionary' =
            IF transformed
            THEN DictSet(dk_data_dictionary, "prediction_features",
                         Processed(dk_data_dictionary["prediction_features"],
                                   "clean"))
            ELSE dk_data_dictionary
    /\ calls' = Append(calls, "data_cleaning_predict")
    /\ pc' = "p_infer"
    /\ UNCHANGED <<ncalls, op, outcome, unfiltered_dataframe, label_list,
                   labels_min, labels_max, localVars, self_model, nfits,
                   fitted, inference, ret, model_training_parameters,
                   labelVars, denormVars>>

\* the regressor's output: one row per input row, one value per label it
\* was fitted on
Outputs(rows, width) == [1..rows -> [1..width -> RawVals]]

\* inference on the local table: self.model.predict(filtered_dataframe)
PredictInferLocal ==
    /\ pc = "p_infer"
    /\ self_model # NoModel
    /\ inference' = [handle |-> self_model, input |-> filtered_dataframe]
    /\ \E out \in Outputs(filtered_dataframe.rows,
                          fitted[self_model].width) :
        predictions' = out
    /\ calls' = Append(calls, "model.predict")
    /\ pc' = "p_denorm"
    /\ UNCHANGED <<ncalls, op, outcome, unfiltered_dataframe, kitchenVars,
                   features_filtered, labels_filtered, data_dictionary,
                   filtered_dataframe, model, pred_df, self_model, nfits,
                   fitted, ret, model_training_parameters, labelVars,
                   denormVars>>

\* predictions = self.model.predict(dk.data_dictionary["prediction_features"])
PredictInfer ==
    /\ pc = "p_infer"
    /\ self_model # NoModel
    /\ inference' =
           [handle |-> self_model,
            input |-> dk_data_dictionary["prediction_features"]]
    /\ \E out \in Outputs(dk_data_dictionary["prediction_features"].rows,
                          fitted[self_model].width) :
        predictions' = out
    /\ calls' = Append(calls, "model.predict")
    /\ pc' = "p_denorm"
    /\ UNCHANGED <<ncalls, op, outcome, unfiltered_dataframe, kitchenVars,
                   features_filtered, labels_filtered, data_dictionary,
                   filtered_dataframe, model, pred_df, self_model, nfits,
                   fitted, ret, model_training_parameters, labelVars,
                   denormVars>>

\* self.model was never assigned
PredictInferUntrained ==
    /\ pc = "p_infer"
    /\ self_model = NoModel
    /\ Raised("AttributeError")

\* DataFrame(predictions, columns=dk.label_list)
DataFrame(data, columns) == [columns |-> columns, data |-> data]

\* every column rescaled with the bounds of the first label
DenormColumnFirstBounds(df, label, mn, mx) ==
    [df EXCEPT !.data =
        [r \in 1..Len(df.data) |->
            [c \in 1..Len(df.columns) |->
                IF df.columns[c] = label
                THEN denorm(df.data[r][c], mn[df.columns[1]],
                            mx[df.columns[1]])
                ELSE df.data[r][c]]]]

\* pred_df[label] = ((pred_df[label] + 1) * (max - min) / 2) + min
DenormColumn(df, label, mn, mx) ==
    [df EXCEPT !.data =
        [r \in 1..Len(df.data) |->
            [c \in 1..Len(df.columns) |->
                IF df.columns[c] = label
                THEN denorm(df.data[r][c], mn[label], mx[label])
                ELSE df.data[r][c]]]]

\* for label in dk.label_list: ...
RECURSIVE DenormLoop(_, _, _, _, _)
DenormLoop(df, labels, i, mn, mx) ==
    IF i > Len(labels) THEN df
    ELSE DenormLoop(DenormColumn(df, labels[i], mn, mx), labels, i + 1,
                    mn, mx)

\* the frame can be built and every label has stored bounds
CanDenorm ==
    /\ fitted[inference.handle].width = Len(label_list)
    /\ LabelsOf(label_list) \subseteq DOMAIN labels_min

PredictDenorm ==
    /\ pc = "p_denorm"
    /\ CanDenorm
    /\ pred_df' = DenormLoop(DataFrame(predictions, label_list), label_list,
                             1, labels_min, labels_max)
    /\ calls' = Append(calls, "denormalize")
    /\ pc' = "p_return"
    /\ UNCHANGED <<ncalls, op, outcome, unfiltered_dataframe, kitchenVars,
                   features_filtered, labels_filtered, data_dictionary,
                   filtered_dataframe, model, predictions, self_model, nfits,
                   fitted, inference, ret, model_training_parameters,
                   labelVars, denormVars>>

\* ValueError (shape of predictions) or KeyError (label without bounds)
PredictDenormError ==
    /\ pc = "p_denorm"
    /\ ~CanDenorm
    /\ Raised("ValueError or KeyError")

\* return (pred_df, dk.do_predict)
PredictReturn ==
    /\ pc = "p_return"
    /\ ret' = [model |-> NoModel, pred_df |-> pred_df,
               do_predict |-> do_predict]
    /\ pc' = "idle"
    /\ outcome' = "returned"
    /\ LocalsClear
    /\ UNCHANGED <<ncalls, op, calls, unfiltered_dataframe, kitchenVars,
                   self_model, nfits, fitted, model_training_parameters,
                   labelVars, denormVars>>

\* ---------------------------------------------------------- specifications
Next ==
    \/ TrainStart \/ TrainFilter \/ TrainSplit \/ TrainFitLabels
    \/ TrainNormalize \/ TrainClean \/ TrainFit \/ TrainFitTypeError
    \/ TrainReturn \/ FitCall \/ FitCallTypeError \/ Raise \/ AssignModel
    \/ PredictStart \/ PredictFind \/ PredictFilter
    \/ PredictNormalize \/ PredictStore \/ PredictClean \/ PredictInfer
    \/ PredictInferUntrained \/ PredictDenorm \/ PredictDenormError
    \/ PredictReturn

Spec == Init /\ [][Next]_vars

\* make_labels on every close series and period within the bounds
InitLabels ==
    /\ close \in CloseSeries
    /\ period \in 1..MaxPeriod
    /\ s = <<>>
    /\ labels_pc = "call"
    /\ DenormOff
    /\ LifeStart("off", {[k \in {} |-> 0]}, EmptyDict)
    /\ label_list = <<"s">>

SpecLabels == InitLabels /\ [][MakeLabels]_vars

\* a label value normalized onto [-1, 1] and denormalized, or a raw
\* prediction denormalized, for every pair of bounds with min < max
InitDenorm ==
    /\ LabelsOff
    /\ x_min \in Bounds
    /\ x_max \in Bounds
    /\ RLt(x_min, x_max)
    /\ denormed = NaN
    /\ \/ /\ denorm_pc = "normalize"
          /\ x \in Values
          /\ RLe(x_min, x) /\ RLe(x, x_max)
          /\ raw = NaN
       \/ /\ denorm_pc = "denorm"
          /\ x = NaN
          /\ raw \in {Num(-1), Num(0), Num(1)}
    /\ LifeStart("off", {[k \in {} |-> 0]}, EmptyDict)
    /\ label_list = <<"s">>

SpecDenorm == InitDenorm /\ [][NormalizeValue \/ DenormValue]_vars

\* fit on a prepared data dictionary for every user-supplied mapping
PreparedDict ==
    normalize_data(make_train_test_datasets(
        [win |-> "training", rows |-> MaxRows, kind |-> "features",
         proc |-> <<"filter">>],
        [win |-> "training", rows |-> MaxRows, kind |-> "labels",
         proc |-> <<"filter">>]))

InitFit ==
    /\ LabelsOff
    /\ DenormOff
    /\ LifeStart("idle", AllParams, PreparedDict)

SpecFit == InitFit /\ [][FitCall \/ FitCallTypeError]_vars

\* ------------------------------------------------------------ make_labels
\* mean(close[i+1 .. i+period]) / close[i] - 1
ForwardReturn(i) ==
    RSub(RDiv(RDiv(SumRange(close, i + 1, i + period), Num(period)),
              close[i]),
         Num(1))

\* C1: wherever make_labels yields a defined value at row i, the value is
\* mean(close[i+1], ..., close[i+period]) / close[i] - 1, and the series
\* is aligned to the dataframe (one value per row).
C1_LabelFormula ==
    labels_pc = "done" =>
        /\ Len(s) = Len(close)
        /\ \A i \in 1..Len(s) :
            ~IsNaN(s[i]) =>
                /\ i + period <= Len(close)
                /\ s[i] = ForwardReturn(i)

C1_Witness ==
    /\ labels_pc = "done"
    /\ period >= 2
    /\ \E i \in 1..Len(s) : ~IsNaN(s[i]) /\ s[i] # Num(0)

\* C2 as claimed: a row's label is missing exactly when the row has fewer
\* than period future rows.
C2_MissingOnlyAtEnd ==
    labels_pc = "done" =>
        \A i \in 1..Len(s) : IsNaN(s[i]) <=> (Len(close) - i < period)

\* C2 amended: a row's label is missing exactly when the row has fewer
\* than period future rows or is one of the first period - 1 rows.
C2_MissingAtBothEnds ==
    labels_pc = "done" =>
        \A i \in 1..Len(s) :
            IsNaN(s[i]) <=> (Len(close) - i < period \/ i < period)

C2_Witness ==
    /\ labels_pc = "done"
    /\ \E i \in 1..Len(s) :
        /\ i < period
        /\ Len(close) - i >= period
        /\ IsNaN(s[i])
    /\ \E i \in 1..Len(s) : ~IsNaN(s[i])

\* -------------------------------------------------------- denormalization
\* C3: denorm maps -1 to min, 1 to max and 0 to (min + max) / 2, and
\* denorm(normalize(x, min, max), min, max) = x for x in [min, max],
\* min < max.
C3_DenormInverse ==
    denorm_pc = "done" =>
        /\ ~IsNaN(x) => denormed = x
        /\ raw = Num(-1) => denormed = x_min
        /\ raw = Num(1) => denormed = x_max
        /\ raw = Num(0) => denormed = RDiv(RAdd(x_min, x_max), Num(2))

C3_Witness ==
    /\ denorm_pc = "done"
    /\ ~IsNaN(x)
    /\ RLt(x_min, x) /\ RLt(x, x_max)
    /\ x[2] = 2
    /\ denormed = x

\* -------------------------------------------------------------------- fit
FixedNames == {"allow_writing_files", "verbose", "early_stopping_rounds"}

FixedSettingsHold(kwargs) ==
    /\ kwargs["allow_writing_files"] = AllowWritingFiles
    /\ kwargs["verbose"] = Verbose
    /\ kwargs["early_stopping_rounds"] = EarlyStoppingRounds

\* C8 as claimed: whatever the user mapping, fit constructs the regressor
\* with the three fixed settings and every user hyperparameter.
C8_FitAlwaysConstructs ==
    op = "fit" =>
        /\ outcome = "returned"
        /\ FixedSettingsHold(fitted[ret.model].kwargs)
        /\ \A k \in DOMAIN model_training_parameters :
            fitted[ret.model].kwargs[k] = model_training_parameters[k]

\* C8 amended: fit constructs the regressor exactly when the user mapping
\* names none of the three fixed settings, and then the configuration is
\* the three fixed settings plus every user hyperparameter; a mapping that
\* names a fixed setting makes the construction raise TypeError.
C8_FitConstructsUnlessCollision ==
    op = "fit" =>
        /\ outcome = "returned" <=>
               DOMAIN model_training_parameters \cap FixedNames = {}
        /\ outcome # "returned" => outcome = "TypeError"
        /\ outcome = "returned" =>
            /\ FixedSettingsHold(fitted[ret.model].kwargs)
            /\ DOMAIN fitted[ret.model].kwargs =
                   FixedNames \cup DOMAIN model_training_parameters
            /\ \A k \in DOMAIN model_training_parameters :
                fitted[ret.model].kwargs[k] = model_training_parameters[k]

C8_Witness ==
    /\ op = "fit"
    /\ outcome = "returned"
    /\ DOMAIN model_training_parameters = {"iterations", "depth"}
    /\ fitted[ret.model].kwargs["depth"] = 2

\* ---------------------------------------------------------------- predict
PredictPcs == {"p_find", "p_filter", "p_normalize", "p_store", "p_clean",
               "p_infer", "p_denorm", "p_return"}

IsPrefix(a, b) == Len(a) <= Len(b) /\ \A i \in 1..Len(a) : a[i] = b[i]

Within(v, mn, mx) == RLe(mn, v) /\ RLe(v, mx)

ReturnsAlignedFrame ==
    (pc = "p_return" /\ outcome' = "returned") =>
        /\ ret'.pred_df.columns = label_list
        /\ Len(ret'.pred_df.data) = unfiltered_dataframe.rows
        /\ \A r \in 1..Len(ret'.pred_df.data) :
            /\ Len(ret'.pred_df.data[r]) = Len(label_list)
            /\ \A c \in 1..Len(label_list) :
                ret'.pred_df.data[r][c] =
                    denorm(predictions[r][c], labels_min[label_list[c]],
                           labels_max[label_list[c]])

\* C4: the frame predict returns has exactly the columns of label_list, in
\* label_list's order, one row per input row, and the value in column c
\* is the raw prediction rescaled with the labels_min and labels_max
\* stored under the name of column c.
C4_ColumnsMatchLabelList == [][ReturnsAlignedFrame]_vars

C4_Witness ==
    /\ op = "predict"
    /\ outcome = "returned"
    /\ ret.pred_df.columns = <<"s", "t">>
    /\ Len(ret.pred_df.data) >= 1
    /\ label_list = <<"s", "t">>
    /\ "t" \in DOMAIN labels_min
    /\ labels_min["s"] # labels_min["t"]
    /\ ret.pred_df.data[1][1] # ret.pred_df.data[1][2]

\* C5 as claimed: every value of the prediction frame lies within
\* [labels_min[label], labels_max[label]] of its column.
C5_AlwaysWithinBounds ==
    pc = "p_return" =>
        \A r \in 1..Len(pred_df.data) : \A c \in 1..Len(label_list) :
            Within(pred_df.data[r][c], labels_min[label_list[c]],
                   labels_max[label_list[c]])

\* C5 amended: a value of the prediction frame lies within [labels_min,
\* labels_max] of its column whenever the regressor's raw value for that
\* cell lies in [-1, 1]; a raw value outside [-1, 1] gives a value outside
\* the bounds whenever labels_min < labels_max.
C5_WithinBoundsIffRawInRange ==
    pc = "p_return" =>
        \A r \in 1..Len(pred_df.data) : \A c \in 1..Len(label_list) :
            LET mn == labels_min[label_list[c]]
                mx == labels_max[label_list[c]]
                inRange == Within(predictions[r][c], Num(-1), Num(1))
            IN /\ inRange => Within(pred_df.data[r][c], mn, mx)
               /\ (~inRange /\ RLt(mn, mx)) =>
                      ~Within(pred_df.data[r][c], mn, mx)

C5_Witness ==
    /\ pc = "p_return"
    /\ Len(pred_df.data) >= 1
    /\ \E c \in 1..Len(label_list) :
        /\ predictions[1][c] = Num(0)
        /\ RLt(labels_min[label_list[c]], labels_max[label_list[c]])
        /\ RLt(labels_min[label_list[c]], pred_df.data[1][c])
    /\ \E c \in 1..Len(label_list) : predictions[1][c] = Num(2)

PredictOrder ==
    <<"find_features", "filter_features(training_filter=False)",
      "normalize_data_from_metadata", "store prediction_features",
      "data_cleaning_predict", "model.predict", "denormalize">>

DoPredictPassedThrough ==
    /\ pc \in PredictPcs \ {"p_filter", "p_clean"} =>
          do_predict' = do_predict
    /\ (pc = "p_return" /\ outcome' = "returned") =>
          ret'.do_predict = do_predict

C9_InferenceUsesLatestFit ==
    pc = "p_denorm" => inference.handle = nfits

ModelOnlyAssigned ==
    self_model' # self_model =>
        /\ pc = "idle"
        /\ op \in {"train", "fit"}
        /\ outcome = "returned"
        /\ self_model' = ret.model

\* C9 amended: inference runs with the handle held in self.model; train
\* and fit return the handle they produce without storing it, so
\* self.model changes only when the caller assigns a returned handle, is
\* always a handle of a completed fit once set, and stays until the next
\* assignment.
C9_InferenceUsesAssignedModel ==
    /\ [](/\ self_model \in 0..nfits
          /\ pc \in {"p_denorm", "p_return"} =>
                /\ inference.handle = self_model
                /\ self_model \in 1..nfits)
    /\ [][ModelOnlyAssigned]_vars

C9_Witness ==
    /\ pc = "p_denorm"
    /\ inference.handle = 1
    /\ nfits = 2
    /\ self_model = 1

PredictLeavesAlone ==
    pc \in PredictPcs =>
        /\ self_model' = self_model
        /\ fitted' = fitted
        /\ labels_min' = labels_min
        /\ labels_max' = labels_max
        /\ label_list' = label_list
        /\ unfiltered_dataframe' = unfiltered_dataframe
        /\ \A k \in DOMAIN dk_data_dictionary \ {"prediction_features"} :
            /\ k \in DOMAIN dk_data_dictionary'
            /\ dk_data_dictionary'[k] = dk_data_dictionary[k]

BoundsSetInTraining ==
    (labels_min' # labels_min \/ labels_max' # labels_max) =>
        pc = "t_normalize"

\* C10: while predict runs, the model handle, the fitted regressors, the
\* stored label bounds, label_list, the input dataframe and every entry
\* of the data dictionary other than prediction_features stay as they
\* were; the label bounds change only in train's normalization step.
C10_PredictFrame ==
    /\ [][PredictLeavesAlone]_vars
    /\ [][BoundsSetInTraining]_vars

C10_Witness ==
    /\ op = "predict"
    /\ outcome = "returned"
    /\ TrainKeys \subseteq DOMAIN dk_data_dictionary
    /\ "prediction_features" \in DOMAIN dk_data_dictionary
    /\ dk_data_dictionary["prediction_features"].proc =
           <<"filter", "normalize_from_metadata", "clean">>
    /\ Len(ret.pred_df.data) >= 1

\* ------------------------------------------------------------------ train
TrainOrder ==
    <<"filter_features(training_filter=True)", "make_train_test_datasets",
      "fit_labels", "normalize_data", "data_cleaning_train", "fit">>

IsNormalized(table) == table.proc = <<"filter", "split", "normalize">>

\* C6: train makes its calls once each in the order filter_features
\* (training_filter true), make_train_test_datasets, fit_labels,
\* normalize_data, data_cleaning_train, fit; the regressor is fitted on
\* the tables of the normalized data dictionary, and train returns the
\* handle that fit produced.
C6_TrainOrder ==
    op = "train" =>
        /\ IsPrefix(calls, TrainOrder)
        /\ outcome = "returned" =>
            /\ calls = TrainOrder
            /\ ret.model = nfits
            /\ \A i \in 1..3 :
                /\ IsNormalized(fitted[ret.model].X[i])
                /\ IsNormalized(fitted[ret.model].eval_set[i])
            /\ fitted[ret.model].X =
                   <<dk_data_dictionary["train_features"],
                     dk_data_dictionary["train_labels"],
                     dk_data_dictionary["train_weights"]>>

C6_Witness ==
    /\ op = "train"
    /\ outcome = "returned"
    /\ nfits = 2
    /\ ret.model = 2

====
